---- MODULE Spec2Model ----
(***************************************************************************)
(* A model of cardBspline/nb3spl.py: the Thomas solver (TDMAsolver), the   *)
(* coefficient builder (calc_coeffs), the basis kernel, the interpolator   *)
(* (_CubicBSpline.__init__ / interp) and the factory CubicBSpline with its *)
(* axis permutations and its cache of specialised classes.                 *)
(*                                                                         *)
(* float64 values are modelled as exact rationals <<num, den>> (den > 0,   *)
(* lowest terms): the properties checked are the exact-arithmetic ones.    *)
(* Arrays are sequences; Python's 0-based index i is element i + 1.        *)
(***************************************************************************)
EXTENDS Integers, Sequences, FiniteSets, TLC

VARIABLES
    \* -- TDMAsolver called on its own (SpecSolver)
    ta, tb, tc, td,     \* the caller's arrays a, b, c, d (b and d are written in place)
    tx,                 \* the returned array
    tin,                \* the arguments as they were passed
    tpc,                \* "idle" | "args" | "returned" | "ZeroDivision"
    \* -- the 1-D interpolator (Spec)
    xi, yi,             \* the caller's grid and value arrays
    yi0,                \* the value array as it was passed to CubicBSpline
    obj,                \* the fitted _CubicBSpline: [xi, c, ordered] or NoObj
    status,             \* outcome of the last call
    phase,              \* "idle" | "new" | "constructed" | "interp"
    x,                  \* the caller's query array after the last interp call
    xin,                \* the query array as it was passed
    res,                \* the array interp returned
    k0,                 \* per query point: k after line 158
    trace,              \* per query point: the 4 reads [row, dist, u, v, oob]
    again,              \* the last interp call was not the first on this interpolator
    \* -- shapes and axis permutations (SpecShape)
    shp,
    \* -- CubicBSpline.jitted_versions under concurrent callers (SpecCache)
    attr,               \* does CubicBSpline have the attribute jitted_versions
    jitted_versions,    \* the dict, as its set of items <<key, class>>
    pc, local,          \* per caller: position in CubicBSpline, its locals
    nbuilt,             \* classes built so far by register_class_type
    log                 \* <<key, class>> of every call that reached line 96

solverVars == <<ta, tb, tc, td, tx, tin, tpc>>
interpVars == <<xi, yi, yi0, obj, status, phase, x, xin, res, k0, trace, again>>
shapeVars  == <<shp>>
cacheVars  == <<attr, jitted_versions, pc, local, nbuilt, log>>
vars == <<solverVars, interpVars, shapeVars, cacheVars>>

None == "None"
\* no interpolator: the constructor raised, or has not run
NoObj == [none |-> TRUE]

(***************************************************************************)
(* float64 arithmetic, exact                                               *)
(***************************************************************************)
Abs(n) == IF n < 0 THEN -n ELSE n

RECURSIVE GCD(_, _)
GCD(m, n) == IF n = 0 THEN m ELSE GCD(n, m % n)

Norm(n, d) ==
    LET g == GCD(Abs(n), Abs(d))
        s == IF d < 0 THEN -1 ELSE 1
    IN  <<(s * n) \div g, (s * d) \div g>>

R(n) == <<n, 1>>
RAdd(p, q) == Norm(p[1] * q[2] + q[1] * p[2], p[2] * q[2])
RSub(p, q) == Norm(p[1] * q[2] - q[1] * p[2], p[2] * q[2])
RMul(p, q) == Norm(p[1] * q[1], p[2] * q[2])
RDiv(p, q) == Norm(p[1] * q[2], p[2] * q[1])
RLess(p, q) == p[1] * q[2] < q[1] * p[2]
RAbs(p) == <<Abs(p[1]), p[2]>>
IsZero(p) == p[1] = 0

\* A function over 1..n as an explicit tuple.
Tup(f) == SubSeq(f, 1, Len(f))

\* Python's a[i] on a sequence: 0-based, a negative index counts from the end.
Idx(a, i) == IF i < 0 THEN a[Len(a) + i + 1] ELSE a[i + 1]
InRange(a, i) == -Len(a) <= i /\ i < Len(a)
Put(a, i, v) == IF i < 0 THEN [a EXCEPT ![Len(a) + i + 1] = v] ELSE [a EXCEPT ![i + 1] = v]

(***************************************************************************)
(* TDMAsolver(a, b, c, d), lines 202-236.  b and d are written in place    *)
(* and b is returned.  st = [b, d, ok]; ok turns FALSE at a division by 0. *)
(***************************************************************************)
RECURSIVE Forward(_, _, _, _)
Forward(a, c, st, it) ==
    IF it > Len(st.d) - 2 \/ ~st.ok THEN st
    ELSE IF IsZero(Idx(st.b, it)) THEN [st EXCEPT !.ok = FALSE]
    ELSE LET m  == RDiv(Idx(a, it), Idx(st.b, it))
             b1 == Put(st.b, it + 1, RSub(Idx(st.b, it + 1), RMul(m, Idx(c, it))))
             d1 == Put(st.d, it + 1, RSub(Idx(st.d, it + 1), RMul(m, Idx(st.d, it))))
         IN  Forward(a, c, [st EXCEPT !.b = b1, !.d = d1], it + 1)

LastRow(st) ==
    IF ~st.ok THEN st
    ELSE IF IsZero(Idx(st.b, -1)) THEN [st EXCEPT !.ok = FALSE]
    ELSE [st EXCEPT !.b = Put(st.b, -1, RDiv(Idx(st.d, -1), Idx(st.b, -1)))]

RECURSIVE Backward(_, _, _)
Backward(c, st, il) ==
    IF il < 0 \/ ~st.ok THEN st
    ELSE IF IsZero(Idx(st.b, il)) THEN [st EXCEPT !.ok = FALSE]
    ELSE LET v == RDiv(RSub(Idx(st.d, il), RMul(Idx(c, il), Idx(st.b, il + 1))),
                       Idx(st.b, il))
         IN  Backward(c, [st EXCEPT !.b = Put(st.b, il, v)], il - 1)

TDMAsolverSwappedMult(a, b, c, d) ==
    \* the multiplier taken from the row below: m = a[it+1] / b[it]
    LET nf == Len(d)
        a1 == Tup([i \in 1..nf |-> IF i < nf THEN a[i + 1] ELSE a[i]])
        f  == Forward(a1, c, [b |-> b, d |-> d, ok |-> TRUE], 0)
    IN  Backward(c, LastRow(f), nf - 2)

TDMAsolver(a, b, c, d) ==
    LET nf == Len(d)
        f  == Forward(a, c, [b |-> b, d |-> d, ok |-> TRUE], 0)
    IN  Backward(c, LastRow(f), nf - 2)


(***************************************************************************)
(* cubic_Bspline_kernel(abs_t), lines 172-179                              *)
(***************************************************************************)
cubic_Bspline_kernel(abs_t) ==
    IF RLess(R(2), abs_t) THEN R(0)
    ELSE IF RLess(R(1), abs_t)
         THEN LET w == RSub(R(2), abs_t) IN RMul(w, RMul(w, w))
         ELSE LET t2 == RMul(abs_t, abs_t)
                  t3 == RMul(t2, abs_t)
              IN  RSub(R(4), RMul(R(3), RSub(RMul(R(2), t2), t3)))

(***************************************************************************)
(* calc_coeffs(yi, alpha, beta), lines 181-200                             *)
(***************************************************************************)
\* lines 186-187: (yi[0] - alpha / 6.) / 6.
BoundaryCoefOverFour(y, bc) == RDiv(RSub(y, RDiv(bc, R(6))), R(4))

BoundaryCoef(y, bc) == RDiv(RSub(y, RDiv(bc, R(6))), R(6))

\* lines 197-198: alpha / 6. + 2. * c[1] - c[2]
ExtrapolatePlus(bc, c1, c2) == RAdd(RAdd(RDiv(bc, R(6)), RMul(R(2), c1)), c2)

Extrapolate(bc, c1, c2) == RSub(RAdd(RDiv(bc, R(6)), RMul(R(2), c1)), c2)

\* line 189: y = yi[1:-1].copy().  view says whether y shares yi's memory.
InteriorRHSView(a) == [val |-> SubSeq(a, 2, Len(a) - 1), view |-> TRUE]

InteriorRHS(a) == [val |-> SubSeq(a, 2, Len(a) - 1), view |-> FALSE]

Ones(n) == Tup([i \in 1..n |-> R(1)])
Zeros(n) == Tup([i \in 1..n |-> R(0)])

\* What the caller's array holds once its interior y has been written.
WriteBack(a, y) ==
    IF y.view
    THEN Tup([i \in 1..Len(a) |-> IF 1 < i /\ i < Len(a) THEN y.val[i - 1] ELSE a[i]])
    ELSE a

\* env: what an index outside an array does in the @njit build, "run" (the
\* access goes to memory outside the array and execution continues) or
\* "IndexError" (bounds checking is on, or NUMBA_DISABLE_JIT).
calc_coeffs(a, alpha, beta, env) ==
    LET n   == Len(a)
        c1  == BoundaryCoef(Idx(a, 0), alpha)
        cn  == BoundaryCoef(Idx(a, -1), beta)
        cA  == Put(Put(Zeros(n + 2), 1, c1), -2, cn)
        y   == InteriorRHS(a)
    IN  IF Len(y.val) = 0
        THEN \* y[0], y[-1], b[-1] and d[-1] index an empty array
             IF env = "IndexError"
             THEN [c |-> None, yi |-> a, fault |-> "IndexError"]
             ELSE LET cB == Put(cA, 0, Extrapolate(alpha, Idx(cA, 1), Idx(cA, 2)))
                      cC == Put(cB, -1, Extrapolate(beta, Idx(cB, -2), Idx(cB, -3)))
                  IN  [c |-> cC, yi |-> a, fault |-> "ok"]
        ELSE LET y1 == Put(y.val, 0, RSub(Idx(y.val, 0), Idx(cA, 1)))
                 y2 == Put(y1, -1, RSub(Idx(y1, -1), Idx(cA, -2)))
                 ones == Ones(Len(y2))
                 b   == Tup([i \in 1..Len(y2) |-> RAdd(R(3), ones[i])])
                 s   == TDMAsolver(ones, b, ones, y2)
                 cB  == Tup([i \in 1..(n + 2) |->
                            IF 2 < i /\ i < n + 1 THEN s.b[i - 2] ELSE cA[i]])
                 cC  == Put(cB, 0, Extrapolate(alpha, Idx(cB, 1), Idx(cB, 2)))
                 cD  == Put(cC, -1, Extrapolate(beta, Idx(cC, -2), Idx(cC, -3)))
             IN  [c |-> cD, yi |-> WriteBack(a, [y EXCEPT !.val = s.d]), fault |-> "ok"]

(***************************************************************************)
(* _CubicBSpline.__init__, lines 136-150 (1-D values: ax_reorder is None)  *)
(***************************************************************************)
\* lines 148-149: np.concatenate((coeffs, np.zeros(shp)))
NoZeroRow(coeffs) == coeffs

AppendZeroRow(coeffs) == coeffs \o <<R(0)>>

\* float64[:] arguments of the wrong length are accepted as they are: the
\* jitclass spec of lines 82-87 fixes only the number of dimensions.
Init__(gxi, gyi, env) ==
    LET r == calc_coeffs(gyi, R(0), R(0), env)
    IN  IF r.fault # "ok"
        THEN [self |-> NoObj, yi |-> r.yi, fault |-> r.fault]
        ELSE [self |-> [xi |-> gxi, c |-> AppendZeroRow(r.c), ordered |-> TRUE],
              yi |-> r.yi, fault |-> "ok"]

(***************************************************************************)
(* _CubicBSpline.interp, lines 152-169                                     *)
(***************************************************************************)
\* line 158: aux.astype(np.int64) rounds toward zero
astype_floor(q) == q[1] \div q[2]

astype_int64(q) == IF q[1] >= 0 THEN q[1] \div q[2] ELSE -((-q[1]) \div q[2])

\* lines 161-164, one pass for one query point: the distance is taken with
\* the old k, the row is read with the incremented k.
LoopBodyIncrementLast(c, aux, k) ==
    LET d == RAbs(RSub(aux, R(k))) IN [k |-> k + 1, row |-> k, dist |-> d]

LoopBody(c, aux, k) ==
    LET d == RAbs(RSub(aux, R(k))) IN [k |-> k + 1, row |-> k + 1, dist |-> d]

\* self.c[k]: an index outside the array raises or reads memory outside it.
ReadRow(c, k, env) ==
    IF InRange(c, k) THEN [v |-> Idx(c, k), oob |-> FALSE]
    ELSE [v |-> env.garbage, oob |-> TRUE]

RECURSIVE Passes(_, _, _, _, _)
Passes(c, aux, k, i, env) ==
    IF i = 4 THEN <<>>
    ELSE LET s == LoopBody(c, aux, k)
             u == cubic_Bspline_kernel(s.dist)
             r == ReadRow(c, s.row, env)
         IN  <<[row |-> s.row, dist |-> s.dist, u |-> u, v |-> r.v, oob |-> r.oob]>>
             \o Passes(c, aux, s.k, i + 1, env)

RECURSIVE SumReads(_, _)
SumReads(t, i) ==
    IF i > Len(t) THEN R(0) ELSE RAdd(RMul(t[i].u, t[i].v), SumReads(t, i + 1))

\* lines 156-164 for the query points q[j..], one record per point
RECURSIVE Points(_, _, _, _, _)
Points(self, h, q, j, env) ==
    IF j > Len(q) THEN <<>>
    ELSE LET aux == RDiv(RSub(q[j], Idx(self.xi, 0)), h)
             k   == astype_int64(aux) - 1
             t   == Passes(self.c, aux, k, 0, env)
         IN  <<[k0 |-> k, t |-> t, y |-> SumReads(t, 1),
                oob |-> \E i \in 1..4 : t[i].oob]>>
             \o Points(self, h, q, j + 1, env)

interp(self, q, env) ==
    LET n   == Len(self.xi)
        h   == RDiv(RSub(Idx(self.xi, -1), Idx(self.xi, 0)), R(n - 1))
        pts == Points(self, h, q, 1, env)
        J   == 1..Len(q)
        bad == \E j \in J : pts[j].oob
    IN  [ret   |-> IF bad /\ env.raise THEN <<>> ELSE Tup([j \in J |-> pts[j].y]),
         self  |-> self,
         x     |-> q,
         k0    |-> Tup([j \in J |-> pts[j].k0]),
         trace |-> Tup([j \in J |-> pts[j].t]),
         fault |-> IF bad /\ env.raise THEN "IndexError" ELSE "ok"]

(***************************************************************************)
(* CubicBSpline, lines 60-72: the axis bookkeeping.  Tuples of axis        *)
(* numbers keep Python's 0-based values; <<>> stands for None.             *)
(***************************************************************************)
\* the integers lo, lo+1, ..., hi-1 in order: tuple(range(lo, hi))
RECURSIVE Range(_, _)
Range(lo, hi) == IF lo >= hi THEN <<>> ELSE <<lo>> \o Range(lo + 1, hi)

\* lines 61-62
NormAxis(axis, ndim) == IF axis < 0 THEN axis + ndim ELSE axis

\* line 65: (axis,) + tuple([a for a in range(ndim) if not a==axis])
AxReorder(axis, ndim) ==
    IF axis > 0 THEN <<axis>> \o Range(0, axis) \o Range(axis + 1, ndim) ELSE <<>>

\* lines 66-67
AxRestoreAsReorder(axis, ndim) == AxReorder(axis, ndim)

AxRestore(axis, ndim) ==
    IF axis > 0 THEN Range(1, axis + 1) \o <<0>> \o Range(axis + 1, ndim) ELSE <<>>

\* line 72: tuple([i for i in range(1, yi.ndim)])
AxExpand(ndim) == Range(1, ndim)

\* ndarray.transpose(*perm) on a shape: result axis i is source axis perm[i]
Transpose(shape, perm) == Tup([i \in 1..Len(shape) |-> shape[perm[i] + 1]])

RECURSIVE Prod(_)
Prod(shape) == IF shape = <<>> THEN 1 ELSE Head(shape) * Prod(Tail(shape))

\* numpy broadcasting of two shapes of equal length; <<>> when they clash
Broadcastable(s, t) ==
    /\ Len(s) = Len(t)
    /\ \A i \in 1..Len(s) : s[i] = t[i] \/ s[i] = 1 \/ t[i] = 1
Broadcast(s, t) == Tup([i \in 1..Len(s) |-> IF s[i] = 1 THEN t[i] ELSE s[i]])

\* CubicBSpline(xi, yi, axis) on shapes: lines 60-72, then __init__ (lines
\* 136-150) with calc_coeffs' out_shp (line 183) and the appended row.
ShapeOfInit(yshape, axis) ==
    LET ndim  == Len(yshape)
        ax    == NormAxis(axis, ndim)
        ro    == AxReorder(ax, ndim)
        rs    == AxRestore(ax, ndim)
        moved == IF ro = <<>> THEN yshape ELSE Transpose(yshape, ro)
    IN  [ordered     |-> ro = <<>>,
         _ax_reorder |-> ro,
         _ax_restore |-> rs,
         _ax_expand  |-> AxExpand(ndim),
         cshape      |-> <<Head(moved) + 2 + 1>> \o Tail(moved)]

\* interp (lines 152-169) on shapes, for a flat array of q query points
ShapeOfInterp(self, q) ==
    LET yshp   == <<q>> \o Tail(self.cshape)
        target == <<q>> \o self._ax_expand
        rows   == <<q>> \o Tail(self.cshape)
    IN  IF Prod(target) # q
        THEN [fault |-> "ValueError", u |-> <<>>, y |-> <<>>, ret |-> <<>>]
        ELSE IF ~Broadcastable(target, rows) \/ Broadcast(target, rows) # yshp
        THEN [fault |-> "ValueError", u |-> target, y |-> <<>>, ret |-> <<>>]
        ELSE [fault |-> "ok", u |-> target, y |-> yshp,
              ret |-> IF self.ordered THEN yshp ELSE Transpose(yshp, self._ax_restore)]

(***************************************************************************)
(* Inputs                                                                  *)
(***************************************************************************)
MaxN == 5       \* longest grid and longest value array
MaxM == 3       \* largest tridiagonal system given to TDMAsolver directly

SeqsOf(S, n) == [1..n -> S]

Vals    == {R(-1), R(2)}
Grid(x0, h, n) == Tup([i \in 1..n |-> R(x0 + (i - 1) * h)])
Grids   == {Grid(0, 1, n) : n \in 2..MaxN} \cup {Grid(3, 2, n) : n \in 2..MaxN}
Values  == UNION {SeqsOf(Vals, m) : m \in 2..MaxN}

\* Query points on the half-cell lattice of grid g, from one cell before its
\* first point to one cell after its last.
QueryPoints(g) ==
    {RAdd(g[1], RDiv(RMul(R(j), RSub(g[2], g[1])), R(2))) :
        j \in -2..(2 * (Len(g) - 1) + 2)}
QueryArrays(g) ==
    {<<p>> : p \in QueryPoints(g)} \cup {<<p, g[Len(g)]>> : p \in {g[1], g[2]}}

\* What the build does at an index outside an array.
CtorEnvs == {"run", "IndexError"}
Raises   == [raise |-> TRUE, garbage |-> R(0)]
ReadEnvs == {Raises, [raise |-> FALSE, garbage |-> R(5)]}

MaxCallers == 2 \* threads calling CubicBSpline
MaxBuilt == 2   \* no new call starts once this many classes were built
MaxDim == 3     \* most dimensions of a value array
MaxQ   == 3     \* most query points in one interp call
Dims   == {4, 5, 6}
Shapes == UNION {SeqsOf(Dims, d) : d \in 1..MaxDim}

SolverSub  == {R(1), R(2)}
SolverDiag == {R(2), R(3)}
SolverRhs  == {R(-1), R(2)}

(***************************************************************************)
(* Specifications.  Each drives one part of the module; the variables of   *)
(* the other parts stay idle.                                              *)
(***************************************************************************)
SolverIdle ==
    /\ ta = <<>> /\ tb = <<>> /\ tc = <<>> /\ td = <<>> /\ tx = None
    /\ tin = None /\ tpc = "idle"
InterpIdle ==
    /\ xi = <<>> /\ yi = <<>> /\ yi0 = <<>> /\ obj = NoObj /\ status = "idle"
    /\ phase = "idle" /\ x = <<>> /\ xin = <<>> /\ res = <<>> /\ k0 = <<>>
    /\ trace = <<>> /\ again = FALSE
ShapeIdle == shp = [phase |-> "idle"]
CacheIdle ==
    /\ attr = FALSE /\ jitted_versions = {} /\ pc = <<>> /\ local = <<>>
    /\ nbuilt = 0 /\ log = {}

\* ---- TDMAsolver on its own
SolverInit ==
    /\ \E m \in 1..MaxM :
          /\ ta \in SeqsOf(SolverSub, m)
          /\ tb \in SeqsOf(SolverDiag, m)
          /\ tc \in SeqsOf(SolverSub, m)
          /\ td \in SeqsOf(SolverRhs, m)
    /\ tin = [a |-> ta, b |-> tb, c |-> tc, d |-> td]
    /\ tx = None /\ tpc = "args"
    /\ InterpIdle /\ ShapeIdle /\ CacheIdle

CallTDMAsolver ==
    /\ tpc = "args"
    /\ \E s \in {TDMAsolver(ta, tb, tc, td)} :
           /\ tb' = s.b
           /\ td' = s.d
           /\ tx' = IF s.ok THEN s.b ELSE None
           /\ tpc' = IF s.ok THEN "returned" ELSE "ZeroDivision"
    /\ UNCHANGED <<ta, tc, tin>>
    /\ UNCHANGED <<interpVars, shapeVars, cacheVars>>

SolverNext == CallTDMAsolver
SpecSolver == SolverInit /\ [][SolverNext]_vars

\* ---- CubicBSpline's cache of specialised classes, lines 57-58 and 74-96,
\* called from several threads.  A step is what runs between two points at
\* which the interpreter may switch threads.  Class 0 is _CubicBSpline
\* itself (jit=False); register_class_type returns a new class each time.
Callers == 1..MaxCallers
CallArgs ==
    {[ndim |-> d, axis |-> a, jit |-> j] :
        d \in 1..2, a \in {-1, 0}, j \in BOOLEAN}
KeyOf(args) == <<args.ndim, NormAxis(args.axis, args.ndim), args.jit>>
HasKey(dict, key) == \E e \in dict : e[1] = key
Lookup(dict, key) == (CHOOSE e \in dict : e[1] = key)[2]
Store(dict, key, cls) == {e \in dict : e[1] # key} \cup {<<key, cls>>}

CacheInit ==
    /\ attr = FALSE /\ jitted_versions = {}
    /\ pc = [t \in Callers |-> "idle"]
    /\ local = [t \in Callers |-> [key |-> <<>>, cls |-> 0]]
    /\ nbuilt = 0 /\ log = {}
    /\ SolverIdle /\ InterpIdle /\ ShapeIdle

\* the call, up to the hasattr test of line 57
Call(t) ==
    /\ pc[t] = "idle"
    /\ nbuilt < MaxBuilt
    /\ \E args \in CallArgs :
          local' = [local EXCEPT ![t] = [key |-> KeyOf(args), cls |-> 0]]
    /\ pc' = [pc EXCEPT ![t] = IF attr THEN "line75" ELSE "line58"]
    /\ UNCHANGED <<attr, jitted_versions, nbuilt, log>>
    /\ UNCHANGED <<solverVars, interpVars, shapeVars>>

\* line 58: CubicBSpline.jitted_versions = {}
SetAttr(t) ==
    /\ pc[t] = "line58"
    /\ attr' = TRUE
    /\ jitted_versions' = {}
    /\ pc' = [pc EXCEPT ![t] = "line75"]
    /\ UNCHANGED <<local, nbuilt, log>>
    /\ UNCHANGED <<solverVars, interpVars, shapeVars>>

\* line 75: if not key in CubicBSpline.jitted_versions
TestKey(t) ==
    /\ pc[t] = "line75"
    /\ pc' = [pc EXCEPT ![t] =
                 IF HasKey(jitted_versions, local[t].key) THEN "line94" ELSE "line76"]
    /\ UNCHANGED <<attr, jitted_versions, local, nbuilt, log>>
    /\ UNCHANGED <<solverVars, interpVars, shapeVars>>

\* lines 76-91: build the class
Build(t) ==
    /\ pc[t] = "line76"
    /\ IF local[t].key[3]
       THEN /\ nbuilt' = nbuilt + 1
            /\ local' = [local EXCEPT ![t].cls = nbuilt + 1]
       ELSE /\ nbuilt' = nbuilt
            /\ local' = [local EXCEPT ![t].cls = 0]
    /\ pc' = [pc EXCEPT ![t] = "line92"]
    /\ UNCHANGED <<attr, jitted_versions, log>>
    /\ UNCHANGED <<solverVars, interpVars, shapeVars>>

\* line 92: CubicBSpline.jitted_versions[key] = cls
Insert(t) ==
    /\ pc[t] = "line92"
    /\ jitted_versions' = Store(jitted_versions, local[t].key, local[t].cls)
    /\ pc' = [pc EXCEPT ![t] = "line96"]
    /\ UNCHANGED <<attr, local, nbuilt, log>>
    /\ UNCHANGED <<solverVars, interpVars, shapeVars>>

\* line 94: cls = CubicBSpline.jitted_versions[key]
Fetch(t) ==
    /\ pc[t] = "line94"
    /\ HasKey(jitted_versions, local[t].key)
    /\ local' = [local EXCEPT ![t].cls = Lookup(jitted_versions, local[t].key)]
    /\ pc' = [pc EXCEPT ![t] = "line96"]
    /\ UNCHANGED <<attr, jitted_versions, nbuilt, log>>
    /\ UNCHANGED <<solverVars, interpVars, shapeVars>>

\* line 94 when another caller's line 58 has replaced the dict meanwhile
FetchKeyError(t) ==
    /\ pc[t] = "line94"
    /\ ~HasKey(jitted_versions, local[t].key)
    /\ pc' = [pc EXCEPT ![t] = "KeyError"]
    /\ UNCHANGED <<attr, jitted_versions, local, nbuilt, log>>
    /\ UNCHANGED <<solverVars, interpVars, shapeVars>>

\* line 96: return cls(...); the caller may call again
Return(t) ==
    /\ pc[t] = "line96"
    /\ log' = log \cup {<<local[t].key, local[t].cls>>}
    /\ pc' = [pc EXCEPT ![t] = "idle"]
    /\ UNCHANGED <<attr, jitted_versions, local, nbuilt>>
    /\ UNCHANGED <<solverVars, interpVars, shapeVars>>

CacheNext ==
    \E t \in Callers :
        \/ Call(t) \/ SetAttr(t) \/ TestKey(t) \/ Build(t)
        \/ Insert(t) \/ Fetch(t) \/ FetchKeyError(t) \/ Return(t)
SpecCache == CacheInit /\ [][CacheNext]_vars

\* ---- shapes: CubicBSpline(xi, yi, axis) on an N-D value array, then interp
ShapeInit ==
    /\ \E ys \in Shapes : \E ax \in (-Len(ys))..(Len(ys) - 1) :
          shp = [phase |-> "new", yshape |-> ys, axis |-> ax]
    /\ SolverIdle /\ InterpIdle /\ CacheIdle

ShapeConstruct ==
    /\ shp.phase = "new"
    /\ shp' = [phase |-> "constructed", yshape |-> shp.yshape, axis |-> shp.axis,
               self |-> ShapeOfInit(shp.yshape, shp.axis)]
    /\ UNCHANGED <<solverVars, interpVars, cacheVars>>

ShapeInterp ==
    /\ shp.phase \in {"constructed", "interp"}
    /\ \E q \in 1..MaxQ :
          shp' = [phase |-> "interp", yshape |-> shp.yshape, axis |-> shp.axis,
                  self |-> shp.self, q |-> q, out |-> ShapeOfInterp(shp.self, q)]
    /\ UNCHANGED <<solverVars, interpVars, cacheVars>>

ShapeNext == ShapeConstruct \/ ShapeInterp
SpecShape == ShapeInit /\ [][ShapeNext]_vars

\* ---- the 1-D interpolator: CubicBSpline(xi, yi), then interp calls
Init ==
    /\ yi \in Values
    /\ xi \in {g \in Grids : Len(g) - Len(yi) \in {-1, 0, 1}}
    /\ yi0 = yi
    /\ obj = NoObj /\ status = "new" /\ phase = "new"
    /\ x = <<>> /\ xin = <<>> /\ res = <<>> /\ k0 = <<>> /\ trace = <<>>
    /\ again = FALSE
    /\ SolverIdle /\ ShapeIdle /\ CacheIdle

Construct ==
    /\ phase = "new"
    /\ \E env \in CtorEnvs :
        \E r \in {Init__(xi, yi, env)} :
              /\ obj' = r.self
              /\ yi' = r.yi
              /\ status' = r.fault
    /\ phase' = "constructed"
    /\ UNCHANGED <<xi, yi0, x, xin, res, k0, trace, again>>
    /\ UNCHANGED <<solverVars, shapeVars, cacheVars>>

Interp ==
    /\ phase \in {"constructed", "interp"}
    /\ obj # NoObj
    /\ \E q \in QueryArrays(xi) :
        \* the build's choice matters only when some read is out of range
        \E checked \in {interp(obj, q, Raises)} :
        \E env \in IF checked.fault = "ok" THEN {Raises} ELSE ReadEnvs :
        \E r \in {IF env = Raises THEN checked ELSE interp(obj, q, env)} :
              /\ obj' = r.self
              /\ x' = r.x
              /\ xin' = q
              /\ res' = r.ret
              /\ k0' = r.k0
              /\ trace' = r.trace
              /\ status' = r.fault
    /\ phase' = "interp"
    /\ again' = (phase = "interp")
    /\ UNCHANGED <<xi, yi, yi0>>
    /\ UNCHANGED <<solverVars, shapeVars, cacheVars>>

Next == Construct \/ Interp
Spec == Init /\ [][Next]_vars


(***************************************************************************)
(* Properties of the 1-D interpolator (Spec)                               *)
(***************************************************************************)
Floor(q) == q[1] \div q[2]
RLeq(p, q) == ~RLess(q, p)
GridLen == Len(xi)
NVals == Len(yi0)
Built == obj # NoObj
\* the normalised position of query point p on the caller's grid
AuxOf(p) == RDiv(RSub(p, xi[1]), RDiv(RSub(xi[GridLen], xi[1]), R(GridLen - 1)))
\* c[i] + 4 c[i+1] + c[i+2] = y[i], 0-based, on the stored coefficients
KnotIdentity(i) ==
    RAdd(RAdd(Idx(obj.c, i), RMul(R(4), Idx(obj.c, i + 1))), Idx(obj.c, i + 2))
        = Idx(yi0, i)

\* C1: for a grid of n >= 4 points and n values, the stored coefficients
\* satisfy c[i] + 4 c[i+1] + c[i+2] = y[i] for every i in 0..n-1, and interp at
\* grid point x[i] returns y[i], both end points included.
C1_ExactAtKnots ==
    (Built /\ GridLen = NVals /\ GridLen >= 4) =>
        /\ \A i \in 0..(GridLen - 1) : KnotIdentity(i)
        /\ phase = "interp" =>
              \A j \in 1..Len(xin) : \A i \in 1..GridLen :
                  xin[j] = xi[i] => (status = "ok" /\ res[j] = yi0[i])

C1_Witness ==
    /\ phase = "interp" /\ status = "ok" /\ GridLen = 5 /\ NVals = 5
    /\ xin = <<xi[1], xi[5]>> /\ res = <<yi0[1], yi0[5]>>
    /\ yi0[1] # yi0[2] /\ yi0[4] # yi0[5]

C8_Original ==
    phase = "interp" =>
        \A j \in 1..Len(xin) : k0[j] = Floor(AuxOf(xin[j])) - 1

\* C8 amended: the base control index is aux truncated toward zero, minus 1:
\* floor(aux) - 1 when aux >= 0 or aux is an integer, floor(aux) when aux is
\* negative and not an integer.
C8_TruncatedIndex ==
    phase = "interp" =>
        \A j \in 1..Len(xin) :
            LET aux == AuxOf(xin[j])
            IN  k0[j] = IF aux[1] >= 0 \/ aux[2] = 1 THEN Floor(aux) - 1
                        ELSE Floor(aux)

C8_Witness ==
    /\ phase = "interp" /\ Len(xin) = 1
    /\ AuxOf(xin[1]) = <<-1, 2>> /\ k0 = <<-1>>

\* C9: with n grid points and n values, for a query point in [x[0], x[n-1]]
\* the 4 passes read rows floor(aux), ..., floor(aux)+3 in that order, pass i
\* at distance |aux - (floor(aux) - 1 + i)|; every row is in 0..n+2 of the
\* stored (n+3)-row array, and row n+2 is read only with weight 0.
C9_FourRows ==
    (phase = "interp" /\ GridLen = NVals) =>
        \A j \in 1..Len(xin) :
            (RLeq(xi[1], xin[j]) /\ RLeq(xin[j], xi[GridLen])) =>
                LET aux == AuxOf(xin[j])
                    f   == Floor(aux)
                IN  /\ Len(obj.c) = GridLen + 3
                    /\ \A i \in 0..3 :
                          LET rd == trace[j][i + 1]
                          IN  /\ rd.row = f + i
                              /\ rd.dist = RAbs(RSub(aux, R(f - 1 + i)))
                              /\ rd.row \in 0..(GridLen + 2)
                              /\ ~rd.oob
                              /\ rd.v = Idx(obj.c, rd.row)
                              /\ rd.row = GridLen + 2 => IsZero(rd.u)

C9_Witness ==
    /\ phase = "interp" /\ GridLen = 4 /\ NVals = 4 /\ status = "ok"
    /\ xin = <<xi[4]>>
    /\ trace[1][4].row = 6 /\ IsZero(trace[1][4].u)
    /\ trace[1][1].row = 3 /\ ~IsZero(trace[1][1].v)

\* C10: construction leaves the caller's value array as it was; after any
\* number of interp calls the interpolator's grid and coefficients are those
\* construction produced and the query array is as it was passed, so a call
\* whose reads are all in range returns what a first call would.
C10_Immutable ==
    /\ yi = yi0
    /\ Built =>
          /\ obj = Init__(xi, yi0, "run").self
          /\ obj.xi = xi
    /\ phase = "interp" =>
          /\ x = xin
          /\ (\A j \in 1..Len(xin) : \A i \in 1..4 : ~trace[j][i].oob) =>
                res = interp(Init__(xi, yi0, "run").self, xin, Raises).ret

C10_Witness ==
    /\ phase = "interp" /\ again /\ status = "ok" /\ NVals = 5 /\ GridLen = 5
    /\ yi = yi0 /\ yi0[2] # yi0[3] /\ x = xin /\ Len(xin) = 2


(***************************************************************************)
(* Properties of TDMAsolver (SpecSolver)                                   *)
(***************************************************************************)
SysLen == Len(tin.d)
\* x[i], 0-based, 0 outside the array
XAt(i) == IF 0 <= i /\ i < SysLen THEN Idx(tx, i) ELSE R(0)
\* Row i of A x with a[i] left of the diagonal in row i (a[0] unused)
RowSameIndex(i) ==
    RAdd(RAdd(IF i > 0 THEN RMul(Idx(tin.a, i), XAt(i - 1)) ELSE R(0),
              RMul(Idx(tin.b, i), XAt(i))),
         IF i < SysLen - 1 THEN RMul(Idx(tin.c, i), XAt(i + 1)) ELSE R(0))
\* Row i of A x with a[i-1] left of the diagonal in row i (a[m-1] unused)
RowShifted(i) ==
    RAdd(RAdd(IF i > 0 THEN RMul(Idx(tin.a, i - 1), XAt(i - 1)) ELSE R(0),
              RMul(Idx(tin.b, i), XAt(i))),
         IF i < SysLen - 1 THEN RMul(Idx(tin.c, i), XAt(i + 1)) ELSE R(0))
SolvedWith(a, c) == TDMAsolver(a, tin.b, c, tin.d)

\* C6 as stated: with a[i] left of the diagonal in row i (a[0] unused) and
\* c[m-1] unused, the returned x satisfies A x = d whenever no division by
\* zero occurs, and x does not depend on a[0] or c[m-1].
C6_Original ==
    tpc = "returned" =>
        /\ \A i \in 0..(SysLen - 1) : RowSameIndex(i) = Idx(tin.d, i)
        /\ \A v \in SolverSub :
              /\ SolvedWith(Put(tin.a, 0, v), tin.c).b = tx
              /\ SolvedWith(tin.a, Put(tin.c, -1, v)).b = tx

\* C6 amended: TDMAsolver reads a[i] as the entry left of the diagonal in row
\* i+1, so a[m-1] (not a[0]) is the unused one, and c[i] as the entry right of
\* the diagonal in row i (c[m-1] unused).  Whenever no division by zero
\* occurs the returned x satisfies A x = d for that A and does not depend on
\* a[m-1] or c[m-1].
C6_ShiftedSubDiagonal ==
    tpc = "returned" =>
        /\ \A i \in 0..(SysLen - 1) : RowShifted(i) = Idx(tin.d, i)
        /\ \A v \in SolverSub :
              /\ SolvedWith(Put(tin.a, -1, v), tin.c).b = tx
              /\ SolvedWith(tin.a, Put(tin.c, -1, v)).b = tx

C6_Witness ==
    /\ tpc = "returned" /\ SysLen = 3
    /\ tin.a[1] # tin.a[2] /\ tin.a[2] # tin.a[3] /\ tin.c[1] # tin.c[2]
    /\ \A i \in 0..2 : ~IsZero(XAt(i))


(***************************************************************************)
(* Properties of the shapes and the axis permutations (SpecShape)          *)
(***************************************************************************)
NDim == Len(shp.yshape)
TargetAxis == IF shp.axis < 0 THEN shp.axis + NDim ELSE shp.axis
AllOnes(n) == Tup([i \in 1..n |-> 1])

\* C4 as stated: for a value array of d >= 1 dimensions and q >= 1 query
\* points interp completes, the kernel weights have shape (q, 1, ..., 1) with
\* d-1 ones, and the result has shape (q,) + the coefficients' trailing shape.
C4_Original ==
    shp.phase = "interp" =>
        /\ shp.out.fault = "ok"
        /\ shp.out.u = <<shp.q>> \o AllOnes(NDim - 1)
        /\ shp.out.y = <<shp.q>> \o Tail(shp.self.cshape)

\* C5: the forward permutation puts the normalised target axis first and
\* keeps the other axes in order; transposing by it and then by the restore
\* permutation gives back the original axis order; for target axis 0 no
\* permutation is stored or applied.  Where interp returns, the result has
\* the value array's shape with the q query points along the target axis.
C5_AxisRoundTrip ==
    shp.phase # "new" =>
        LET self == shp.self
            ident == Range(0, NDim)
        IN  /\ self.ordered <=> TargetAxis = 0
            /\ TargetAxis = 0 =>
                  /\ self._ax_reorder = <<>> /\ self._ax_restore = <<>>
                  /\ self.cshape = <<Head(shp.yshape) + 3>> \o Tail(shp.yshape)
            /\ TargetAxis > 0 =>
                  /\ Len(self._ax_reorder) = NDim /\ Len(self._ax_restore) = NDim
                  /\ self._ax_reorder[1] = TargetAxis
                  /\ \A i, j \in 2..NDim :
                        i < j => self._ax_reorder[i] < self._ax_reorder[j]
                  /\ {self._ax_reorder[i] : i \in 1..NDim} = 0..(NDim - 1)
                  /\ Transpose(Transpose(ident, self._ax_reorder), self._ax_restore)
                        = ident
                  /\ Head(self.cshape) = shp.yshape[TargetAxis + 1] + 3
            /\ (shp.phase = "interp" /\ shp.out.fault = "ok") =>
                  shp.out.ret = [shp.yshape EXCEPT ![TargetAxis + 1] = shp.q]

C5_Witness ==
    /\ shp.phase = "constructed" /\ NDim = 3 /\ shp.axis = -1
    /\ shp.self._ax_reorder = <<2, 0, 1>> /\ shp.self._ax_restore = <<1, 2, 0>>
    /\ shp.yshape = <<4, 5, 6>> /\ shp.self.cshape = <<9, 4, 5>>


(***************************************************************************)
(* Properties of the cache of specialised classes (SpecCache)              *)
(***************************************************************************)
\* C7 as stated: under any interleaving the cache is a guarded
\* insert-if-absent map: an entry in it is never replaced or lost, and all
\* callers using the same key get the same class (so a class is built at
\* most once per key).
C7_Original ==
    /\ \A e1, e2 \in log : e1[1] = e2[1] => e1[2] = e2[2]
    /\ \A e \in log : e \in jitted_versions

====
